---- MODULE Spec2Model ----
(***************************************************************************)
(* A model of robust_lda.py (class RobustTopics): quasi-random sampling of *)
(* hyper-parameter configurations, repeated fitting of every               *)
(* configuration, extraction of top terms and ranking vectors, the         *)
(* stability reports, and the ranking / inspection views.                  *)
(*                                                                         *)
(* External collaborators are nondeterministic inputs: the Sobol           *)
(* generator yields points of a grid of [0,1]^d, a fit yields one of a     *)
(* small set of component matrices or raises.  The scipy measures other    *)
(* than the Jaccard overlap are not evaluated: no report field of the      *)
(* model depends on them.                                                  *)
(***************************************************************************)
EXTENDS Integers, Sequences, FiniteSets, TLC

VARIABLES
    n_iterations,          \* self.n_iterations
    n_relevant_top_words,  \* self.n_relevant_top_words
    models,                \* self.models: insertion-ordered dict, family name -> settings
    pc,                    \* "idle", or "fitting" while fit_models waits for a fit to return
    fi,                    \* fit_models: position of the outer loop in self.models (1-based)
    si,                    \* fit_models: position of the loop over settings["sampling"] (1-based)
    model_iterations,      \* fit_models: the local list that collects the current run-group
    result,                \* what the last finished call returned or raised
    fit_log,               \* history: the fit invocations of the current fit_models call
    base,                  \* history: per family, len(settings[...]) when fit_models was entered
    n_calls                \* history: how many times each entry point has been called

vars == <<n_iterations, n_relevant_top_words, models, pc, fi, si,
          model_iterations, result, fit_log, base, n_calls>>

(***************************************************************************)
(* Bounds of the model.                                                    *)
(***************************************************************************)
MaxSamples == 2        \* n_samples of a load call is drawn from 0..MaxSamples
MaxIterations == 2     \* n_iterations is drawn from 0..MaxIterations
MaxTopWords == 2       \* n_relevant_top_words is drawn from 1..MaxTopWords
MaxFitCalls == 2       \* fit_models is entered at most this often
OneFitCall == 1        \* fit_models calls per object in the orchestrator specification
SamplerLoads == 1      \* load calls per object in the sampler specification
SamplerN == 2          \* n_samples of a load call in the sampler specification
Den == 2               \* Sobol coordinates are c/Den, c in 0..Den
MaxGroups == 2         \* run-groups of the context the ranking builder is applied to
MaxRuns == 2           \* runs per run-group there

(***************************************************************************)
(* Python values.  A value is a record with a type tag; numbers live in i, *)
(* strings in s.  A float is kept exactly, as the numerator of a fraction  *)
(* over 100 * Den.                                                         *)
(***************************************************************************)
PyInt(n) == [t |-> "int", i |-> n, s |-> ""]
PyFloat(n) == [t |-> "float", i |-> n, s |-> ""]
PyStr(x) == [t |-> "str", i |-> 0, s |-> x]
PyNone == [t |-> "None", i |-> 0, s |-> ""]

\* int(x) of Python: truncation towards zero of num/den (den > 0).
Trunc(num, den) == IF num >= 0 THEN num \div den ELSE -((-num) \div den)

Min2(a, b) == IF a <= b THEN a ELSE b

(***************************************************************************)
(* Parameter specifications.  `mode` is the text of the mode string and    *)
(* `interned` tells whether that str object is the interned one, which is  *)
(* what `is "fixed"` compares.  `values` is a sequence: <<min, max>> in    *)
(* hundredths for a range, the options of a list, <<value>> for fixed.     *)
(***************************************************************************)
ParamSpec(name, type, mode, interned, values) ==
    [name |-> name, type |-> type, mode |-> mode, interned |-> interned,
     values |-> values]

Range(name, type, lo, hi) == ParamSpec(name, type, "range", TRUE, <<PyInt(lo), PyInt(hi)>>)
List(name, type, options) == ParamSpec(name, type, "list", TRUE, options)
Fixed(name, type, value) == ParamSpec(name, type, "fixed", TRUE, <<value>>)

\* x is "fixed": identity with the literal of robust_lda.py, an interned str.
IsFixedLiteral(param) == param.mode = "fixed" /\ param.interned

\* _range_to_value: p_range[0] + (p_range[1] - p_range[0]) * sampling, int() for int.
range_to_value(p_range, sampling, p_type) ==
    LET value == p_range[1].i * Den + (p_range[2].i - p_range[1].i) * sampling
    IN  IF p_type = "int" THEN PyInt(Trunc(value, 100 * Den)) ELSE PyFloat(value)

\* _list_to_value: p_values[min(floor(sampling*len), len-1)].
list_to_value(p_values, sampling, p_type) ==
    p_values[Min2((sampling * Len(p_values)) \div Den, Len(p_values) - 1) + 1]

\* _param_to_value: falls off the end (None) for any other mode.
param_to_value(param, sampling) ==
    IF param.mode = "range" THEN range_to_value(param.values, sampling, param.type)
    ELSE IF param.mode = "list" THEN list_to_value(param.values, sampling, param.type)
    ELSE PyNone

NotFixed(param) == ~IsFixedLiteral(param)

\* list(filter(pred, params)) as the sequence of positions kept; the predicate
\* is `is "fixed"` when fixed is TRUE and `is not "fixed"` otherwise.
RECURSIVE FilterIdx(_, _, _)
FilterIdx(params, fixed, i) ==
    IF i > Len(params) THEN <<>>
    ELSE (IF (IF fixed THEN IsFixedLiteral(params[i]) ELSE NotFixed(params[i]))
          THEN <<i>> ELSE <<>>) \o FilterIdx(params, fixed, i + 1)

IndexIn(seq, x) == CHOOSE j \in 1..Len(seq) : seq[j] = x

\* _compute_param_combinations; vecs is what i4_sobol_generate(len(params), n_samples)
\* returned: n_samples points with len(params) coordinates c (for c/Den) each.
compute_param_combinations(params, n_samples, vecs) ==
    LET changing_params == FilterIdx(params, FALSE, 1)
        fixed_params == FilterIdx(params, TRUE, 1)
        positions == {changing_params[q] : q \in 1..Len(changing_params)}
                        \cup {fixed_params[q] : q \in 1..Len(fixed_params)}
        names == {params[j].name : j \in positions}
        pos(nm) == CHOOSE j \in positions : params[j].name = nm
        isChanging(j) == \E q \in 1..Len(changing_params) : changing_params[q] = j
        sample(vec) ==
            [nm \in names |->
                IF isChanging(pos(nm))
                THEN param_to_value(params[pos(nm)], vec[IndexIn(changing_params, pos(nm))])
                ELSE params[pos(nm)].values[1]]
    IN  [j \in 1..n_samples |-> sample(vecs[j])]

\* i4_sobol_generate(dim, n): n points whose coordinates c (for c/Den) are drawn from Coords.
SobolOutputs(dim, n, Coords) == [1..n -> [1..dim -> Coords]]

(***************************************************************************)
(* The presets of load_sklearn_lda_data and load_sklearn_nmf_data.         *)
(***************************************************************************)
LdaSimple == <<Range("n_components", "int", 500, 5000)>>
LdaComplex == <<Range("n_components", "int", 500, 5000),
                Range("learning_decayfloat", "float", 51, 100)>>
NmfSimple == <<Range("n_components", "int", 500, 5000),
               Fixed("init", "str", PyStr("random"))>>
NmfComplex == <<Range("n_components", "int", 500, 5000),
                List("init", "str", <<PyStr("random"), PyStr("nndsvd"),
                                      PyStr("nndsvda"), PyNone>>),
                Fixed("solver", "str", PyStr("mu")),
                List("beta_loss", "str", <<PyStr("frobenius"),
                                           PyStr("kullback-leibler")>>)>>

Preset(name, setup, custom_params) ==
    IF setup = "custom" THEN custom_params
    ELSE IF name = "sklearn_lda"
         THEN (IF setup = "simple" THEN LdaSimple ELSE LdaComplex)
         ELSE (IF setup = "simple" THEN NmfSimple ELSE NmfComplex)

(***************************************************************************)
(* self.models, an insertion-ordered dict: a sequence of entries.          *)
(***************************************************************************)
DictHas(d, k) == \E j \in 1..Len(d) : d[j].name = k
DictPos(d, k) == CHOOSE j \in 1..Len(d) : d[j].name = k
DictSet(d, k, v) ==
    IF DictHas(d, k) THEN [d EXCEPT ![DictPos(d, k)].settings = v]
    ELSE Append(d, [name |-> k, settings |-> v])

\* model_informations of load_sklearn_*_data (the data matrix X is not modelled).
ModelInformations(params, n_samples, vecs) ==
    [n_samples |-> n_samples,
     samples |-> <<>>,
     topic_terms |-> <<>>,
     report |-> <<>>,
     report_full |-> <<>>,
     params |-> params,
     sampling |-> compute_param_combinations(params, n_samples, vecs)]

\* What a call left behind: the error it raised ("" when it returned) and its output.
Outcome(op, args, error, value) == [op |-> op, args |-> args, error |-> error, value |-> value]
NoResult == Outcome("none", <<>>, "", <<>>)
Returned(op, value) == Outcome(op, <<>>, "", value)
Raised(op, error) == Outcome(op, <<>>, error, <<>>)

Bump(f, k) == [f EXCEPT ![k] = @ + 1]

\* load_sklearn_lda_data / load_sklearn_nmf_data with the inputs drawn from the sets given.
Load(name, Ns, Setups, Customs, Coords, limit) ==
    /\ pc = "idle"
    /\ n_calls.load < limit
    /\ \E n_samples \in Ns, setup \in Setups :
         \E custom_params \in (IF setup = "custom" THEN Customs ELSE {<<>>}) :
            LET params == Preset(name, setup, custom_params)
            IN  \E vecs \in SobolOutputs(Len(params), n_samples, Coords) :
                  /\ models' = DictSet(models, name, ModelInformations(params, n_samples, vecs))
                  /\ result' = Returned("load", <<>>)
    /\ n_calls' = Bump(n_calls, "load")
    /\ UNCHANGED <<n_iterations, n_relevant_top_words, pc, fi, si,
                   model_iterations, fit_log, base>>

\* An object whose constructor arguments were drawn from the sets given, between calls.
Idle(Iterations, TopWords) ==
    /\ n_iterations \in Iterations
    /\ n_relevant_top_words \in TopWords
    /\ pc = "idle"
    /\ fi = 0
    /\ si = 0
    /\ model_iterations = <<>>
    /\ result = NoResult
    /\ fit_log = <<>>
    /\ base = <<>>
    /\ n_calls = [load |-> 0, fit |-> 0]

\* __init__
Construct(Iterations, TopWords) ==
    /\ Idle(Iterations, TopWords)
    /\ models = <<>>

(***************************************************************************)
(* Trained models.  components_ is a matrix of term weights, one row per   *)
(* topic; the rows the fits of the model return have pairwise distinct     *)
(* weights, so argsort has one answer.  Features are numbered from 0.      *)
(***************************************************************************)
TopicWeights(r) ==
    IF r = 0 THEN <<3, 2, 1>> ELSE IF r = 1 THEN <<1, 3, 2>> ELSE <<2, 1, 3>>

\* The component matrices a fit with n_components = T may return.
FitOutcomes(T, Shifts) ==
    {[t \in 1..T |-> TopicWeights((t - 1 + shift) % 3)] : shift \in Shifts}

\* LatentDirichletAllocation(**sample).fit(data) / NMF(**sample).fit(data)
Estimator(sample, components) ==
    [params |-> sample,
     n_components |-> sample["n_components"].i,
     components_ |-> components]

\* topic.argsort()[:-n_terms - 1:-1]: the n_terms features of largest weight, largest first.
RECURSIVE TopOf(_, _, _)
TopOf(topic, n_terms, taken) ==
    LET rest == (1..Len(topic)) \ taken
    IN  IF n_terms = 0 \/ rest = {} THEN <<>>
        ELSE LET best == CHOOSE j \in rest : \A q \in rest : topic[q] <= topic[j]
             IN  <<best - 1>> \o TopOf(topic, n_terms - 1, taken \cup {best})

\* _get_top_terms
get_top_terms(model, n_terms) ==
    [t \in 1..Len(model.components_) |-> TopOf(model.components_[t], n_terms, {})]

SetOf(seq) == {seq[j] : j \in 1..Len(seq)}

(***************************************************************************)
(* _compute_topic_stability.  Fractions are records num/den; the Jaccard   *)
(* values of one configuration are brought to the denominator Lcm.         *)
(***************************************************************************)
\* _jaccard_similarity as the pair <<|a & b|, |a | b|>>
jaccard_similarity(a, b) ==
    <<Cardinality(SetOf(a) \cap SetOf(b)), Cardinality(SetOf(a) \cup SetOf(b))>>

\* pdist: the pairs (i, j), i < j, of the rows, in row-major order.
RECURSIVE PairsFrom(_, _, _)
PairsFrom(i, j, n) ==
    IF i >= n THEN <<>>
    ELSE IF j > n THEN PairsFrom(i + 1, i + 2, n)
    ELSE <<(<<i, j>>)>> \o PairsFrom(i, j + 1, n)

pdist(rows) ==
    LET pairs == PairsFrom(1, 2, Len(rows))
    IN  [q \in 1..Len(pairs) |-> jaccard_similarity(rows[pairs[q][1]], rows[pairs[q][2]])]

RECURSIVE Factorial(_)
Factorial(n) == IF n <= 1 THEN 1 ELSE n * Factorial(n - 1)

RECURSIVE SumSeq(_)
SumSeq(seq) == IF Len(seq) = 0 THEN 0 ELSE Head(seq) + SumSeq(Tail(seq))

RECURSIVE Flatten(_)
Flatten(seqs) == IF Len(seqs) = 0 THEN <<>> ELSE Head(seqs) \o Flatten(Tail(seqs))

\* ndarray.mean() of Jaccard values: NaN (den = 0) over no values.
MeanOf(sims, lcm) ==
    [num |-> SumSeq([q \in 1..Len(sims) |-> sims[q][1] * (lcm \div sims[q][2])]),
     den |-> lcm * Len(sims)]

Less(x, y) == x[1] * y[2] < y[1] * x[2]
MinOf(sims) == sims[CHOOSE q \in 1..Len(sims) : \A r \in 1..Len(sims) : ~Less(sims[r], sims[q])]
MaxOf(sims) == sims[CHOOSE q \in 1..Len(sims) : \A r \in 1..Len(sims) : ~Less(sims[q], sims[r])]

\* One pass of the loop over settings["samples"]: the settings after it and the error raised.
StabilitySample(name, settings, sample_id) ==
    LET sample == settings.samples[sample_id + 1]
    IN  IF Len(sample) = 0
        THEN [settings |-> settings, error |-> "IndexError"]         \* sample[0]
        ELSE
        LET n_topics == sample[1].n_components
            terms == [r \in 1..Len(sample) |-> get_top_terms(sample[r], n_relevant_top_words)]
            with_terms == [settings EXCEPT !.topic_terms = Append(@, terms)]
            jaccard == [topic \in 1..n_topics |->
                           pdist([r \in 1..Len(terms) |-> terms[r][topic]])]
            lcm == Factorial(2 * n_relevant_top_words)
        IN  IF sample_id + 1 > Len(settings.sampling)
            THEN [settings |-> with_terms, error |-> "IndexError"]   \* settings["sampling"][sample_id]
            ELSE IF \E topic \in 1..n_topics : Len(jaccard[topic]) = 0
            THEN [settings |-> with_terms, error |-> "ValueError"]   \* min(axis=1) over no pairs
            ELSE
            LET report == [model |-> name,
                           sample_id |-> sample_id,
                           n_topics |-> n_topics,
                           params |-> settings.sampling[sample_id + 1],
                           jaccard |-> MeanOf(Flatten(jaccard), lcm)]
                report_full == [model |-> name,
                                sample_id |-> sample_id,
                                n_topics |-> n_topics,
                                params |-> settings.sampling[sample_id + 1],
                                jaccard |-> [mean |-> [t \in 1..n_topics |-> MeanOf(jaccard[t], lcm)],
                                             min |-> [t \in 1..n_topics |-> MinOf(jaccard[t])],
                                             max |-> [t \in 1..n_topics |-> MaxOf(jaccard[t])]]]
            IN  [settings |-> [with_terms EXCEPT !.report = Append(@, report),
                                                 !.report_full = Append(@, report_full)],
                 error |-> ""]

\* for sample_id, sample in enumerate(settings["samples"])
RECURSIVE StabilityFamily(_, _, _)
StabilityFamily(name, settings, sample_id) ==
    IF sample_id >= Len(settings.samples) THEN [settings |-> settings, error |-> ""]
    ELSE LET r == StabilitySample(name, settings, sample_id)
         IN  IF r.error # "" THEN r ELSE StabilityFamily(name, r.settings, sample_id + 1)

\* for name, settings in self.models.items()
RECURSIVE StabilityModels(_, _)
StabilityModels(ms, j) ==
    IF j > Len(ms) THEN [models |-> ms, error |-> ""]
    ELSE LET r == StabilityFamily(ms[j].name, ms[j].settings, 0)
             after == [ms EXCEPT ![j].settings = r.settings]
         IN  IF r.error # "" THEN [models |-> after, error |-> r.error]
             ELSE StabilityModels(after, j + 1)

compute_topic_stability(ms) == StabilityModels(ms, 1)

(***************************************************************************)
(* fit_models.  The loops run until the next fit is invoked; a fit returns *)
(* or raises in a step of its own.                                         *)
(***************************************************************************)
\* A variant that puts the run-group in front of the earlier ones.
InsertRunGroupFirst(settings, group) == [settings EXCEPT !.samples = <<group>> \o @]

\* settings["samples"].append(model_iterations)
AppendRunGroup(settings, group) == [settings EXCEPT !.samples = Append(@, group)]

\* The loops of fit_models from the given position up to the next fit, or to their end.
RECURSIVE RunLoops(_, _, _, _)
RunLoops(ms, f, s, group) ==
    IF f > Len(ms) THEN [done |-> TRUE, models |-> ms, fi |-> 0, si |-> 0, group |-> <<>>]
    ELSE IF s > Len(ms[f].settings.sampling) THEN RunLoops(ms, f + 1, 1, <<>>)
    ELSE IF Len(group) >= n_iterations
         THEN RunLoops([ms EXCEPT ![f].settings = AppendRunGroup(@, group)], f, s + 1, <<>>)
    ELSE [done |-> FALSE, models |-> ms, fi |-> f, si |-> s, group |-> group]

\* The rest of fit_models once the loops are through: self._compute_topic_stability().
Proceed(at) ==
    IF at.done
    THEN LET r == compute_topic_stability(at.models)
         IN  /\ models' = r.models
             /\ pc' = "idle"
             /\ result' = Outcome("fit_models", <<>>, r.error, <<>>)
    ELSE /\ models' = at.models
         /\ pc' = "fitting"
         /\ result' = NoResult

Lengths(settings) ==
    [samples |-> Len(settings.samples), topic_terms |-> Len(settings.topic_terms),
     report |-> Len(settings.report), report_full |-> Len(settings.report_full)]

FitModels(limit) ==
    /\ pc = "idle"
    /\ n_calls.fit < limit
    /\ LET at == RunLoops(models, 1, 1, <<>>)
       IN  /\ Proceed(at)
           /\ fi' = at.fi
           /\ si' = at.si
           /\ model_iterations' = at.group
    /\ fit_log' = <<>>
    /\ base' = [j \in 1..Len(models) |-> Lengths(models[j].settings)]
    /\ n_calls' = Bump(n_calls, "fit")
    /\ UNCHANGED <<n_iterations, n_relevant_top_words>>

Invocation == [name |-> models[fi].name, sample_id |-> si - 1,
               it |-> Len(model_iterations) + 1,
               sample |-> models[fi].settings.sampling[si]]

\* The fit invoked at (fi, si) returns a trained model.
FitReturns(Shifts) ==
    /\ pc = "fitting"
    /\ LET sample == models[fi].settings.sampling[si]
       IN  \E components \in FitOutcomes(sample["n_components"].i, Shifts) :
             LET at == RunLoops(models, fi, si,
                                Append(model_iterations, Estimator(sample, components)))
             IN  /\ Proceed(at)
                 /\ fi' = at.fi
                 /\ si' = at.si
                 /\ model_iterations' = at.group
    /\ fit_log' = Append(fit_log, Invocation)
    /\ UNCHANGED <<n_iterations, n_relevant_top_words, base, n_calls>>

\* A variant that keeps the models fitted so far as the run-group of the configuration.
FitRaisesKeepingGroup ==
    /\ pc = "fitting"
    /\ pc' = "idle"
    /\ result' = Outcome("fit_models", <<>>, "FitError", Invocation)
    /\ fit_log' = Append(fit_log, Invocation)
    /\ models' = [models EXCEPT ![fi].settings = AppendRunGroup(@, model_iterations)]
    /\ fi' = 0
    /\ si' = 0
    /\ model_iterations' = <<>>
    /\ UNCHANGED <<n_iterations, n_relevant_top_words, base, n_calls>>

\* The fit invoked at (fi, si) raises: nothing in fit_models catches it.
FitRaises ==
    /\ pc = "fitting"
    /\ pc' = "idle"
    /\ result' = Outcome("fit_models", <<>>, "FitError", Invocation)
    /\ fit_log' = Append(fit_log, Invocation)
    /\ fi' = 0
    /\ si' = 0
    /\ model_iterations' = <<>>
    /\ UNCHANGED <<n_iterations, n_relevant_top_words, models, base, n_calls>>

(***************************************************************************)
(* rank_models and analyse_sample.                                         *)
(***************************************************************************)
\* The attributes __init__ gives the object; nothing else assigns one.
Attributes == {"n_iterations", "n_relevant_top_words", "models"}

RECURSIVE AllReports(_, _)
AllReports(ms, j) ==
    IF j > Len(ms) THEN <<>> ELSE ms[j].settings.report \o AllReports(ms, j + 1)

\* sorted(all_reports, key=...): the key reads self.rank_metric and
\* self.distribution_metric for every element.
rank_models(weights) ==
    LET all_reports == AllReports(models, 1)
    IN  IF Len(all_reports) = 0 THEN Returned("rank_models", <<>>)
        ELSE IF ~({"rank_metric", "distribution_metric"} \subseteq Attributes)
        THEN Raised("rank_models", "AttributeError")
        ELSE Returned("rank_models", all_reports)

RankModels ==
    /\ pc = "idle"
    /\ result' = rank_models(<<1, 1, 1>>)
    /\ UNCHANGED <<n_iterations, n_relevant_top_words, models, pc, fi, si,
                   model_iterations, fit_log, base, n_calls>>

\* The loop over the topics from `topic` on; printed holds the sets printed so far.
RECURSIVE AnalyseTopics(_, _, _, _, _)
AnalyseTopics(args, topic_terms, topic, n_topics, printed) ==
    IF topic >= n_topics THEN Outcome("analyse_sample", args, "", printed)
    ELSE IF topic + 1 > Len(topic_terms)
         THEN Outcome("analyse_sample", args, "IndexError", printed)  \* topic_terms[sample_id][topic]
    ELSE LET start == SetOf(topic_terms[topic + 1][1])
             inter == {e \in start : \A r \in 1..Len(topic_terms) :
                                        e \in SetOf(topic_terms[r][topic + 1])}
         IN  AnalyseTopics(args, topic_terms, topic + 1, n_topics, Append(printed, inter))

\* analyse_sample; the value is, per topic, the set of features whose names were printed.
analyse_sample(model, sample_id) ==
    LET args == <<model, sample_id>>
    IN  IF ~DictHas(models, model) THEN Outcome("analyse_sample", args, "KeyError", <<>>)
        ELSE LET settings == models[DictPos(models, model)].settings
             IN  IF sample_id + 1 > Len(settings.samples)
                    \/ Len(settings.samples[sample_id + 1]) = 0
                    \/ sample_id + 1 > Len(settings.topic_terms)
                 THEN Outcome("analyse_sample", args, "IndexError", <<>>)
                 ELSE AnalyseTopics(args, settings.topic_terms[sample_id + 1], 0,
                                    Len(settings.samples[sample_id + 1][1].components_), <<>>)

Families == {"sklearn_lda", "sklearn_nmf"}

AnalyseSample(Ids) ==
    /\ pc = "idle"
    /\ \E model \in Families, sample_id \in Ids :
         result' = analyse_sample(model, sample_id)
    /\ UNCHANGED <<n_iterations, n_relevant_top_words, models, pc, fi, si,
                   model_iterations, fit_log, base, n_calls>>

(***************************************************************************)
(* _create_ranking_vectors.                                                *)
(***************************************************************************)
\* terms.index(e)
IndexOf(terms, e) ==
    (CHOOSE j \in 1..Len(terms) : terms[j] = e /\ \A q \in 1..(j - 1) : terms[q] # e) - 1

\* A variant whose sentinel is the length of the term list.
terms_to_ranking_by_list_length(terms, vocab) ==
    [j \in 1..Len(vocab) |->
        IF vocab[j] \in SetOf(terms) THEN IndexOf(terms, vocab[j]) ELSE Len(terms)]

\* _terms_to_ranking
terms_to_ranking(terms, vocab) ==
    [j \in 1..Len(vocab) |->
        IF vocab[j] \in SetOf(terms) THEN IndexOf(terms, vocab[j]) ELSE Len(vocab)]

\* The first loop of _create_ranking_vectors: the top terms of every model of every sample.
SampleTerms(settings) ==
    [g \in 1..Len(settings.samples) |->
        [r \in 1..Len(settings.samples[g]) |->
            get_top_terms(settings.samples[g][r], n_relevant_top_words)]]

\* vocab after the first loop: one set, updated by every model of every sample.
Vocabulary(settings) ==
    LET sample_terms == SampleTerms(settings)
    IN  UNION {UNION {UNION {SetOf(sample_terms[g][r][t]) : t \in 1..Len(sample_terms[g][r])}
                         : r \in 1..Len(sample_terms[g])}
                 : g \in 1..Len(sample_terms)}

\* list(vocab): the elements of the set in the order the set iterates them.
Orderings(S) ==
    {f \in [1..Cardinality(S) -> S] : \A a, b \in 1..Cardinality(S) : a # b => f[a] # f[b]}

\* The second loop of _create_ranking_vectors, for vocab_vec = list(vocab).
create_ranking_vectors(settings, vocab_vec) ==
    LET sample_terms == SampleTerms(settings)
    IN  [g \in 1..Len(sample_terms) |->
            [r \in 1..Len(sample_terms[g]) |->
                [t \in 1..Len(sample_terms[g][r]) |->
                    terms_to_ranking(sample_terms[g][r][t], vocab_vec)]]]

\* self._create_ranking_vectors(settings) for one registered family.
CreateRankingVectors ==
    /\ pc = "idle"
    /\ \E j \in 1..Len(models) :
         \E vocab_vec \in Orderings(Vocabulary(models[j].settings)) :
            result' = Outcome("create_ranking_vectors", <<models[j].name>>, "",
                              [vocab_vec |-> vocab_vec,
                               ranking_vecs |-> create_ranking_vectors(models[j].settings, vocab_vec)])
    /\ UNCHANGED <<n_iterations, n_relevant_top_words, models, pc, fi, si,
                   model_iterations, fit_log, base, n_calls>>

\* self._compute_topic_stability() called on its own.
ComputeTopicStability(limit) ==
    /\ pc = "idle"
    /\ n_calls.fit < limit
    /\ n_calls' = Bump(n_calls, "fit")
    /\ LET r == compute_topic_stability(models)
       IN  /\ models' = r.models
           /\ result' = Outcome("compute_topic_stability", <<>>, r.error, <<>>)
    /\ UNCHANGED <<n_iterations, n_relevant_top_words, pc, fi, si,
                   model_iterations, fit_log, base>>

(***************************************************************************)
(* The sampler on its own: custom parameter spaces of every shape.         *)
(***************************************************************************)
SamplerCustoms ==
    { <<Range("n_components", "int", 200, 200)>>,
      <<Range("n_components", "int", 100, 300), Fixed("init", "str", PyStr("random"))>>,
      <<Fixed("solver", "str", PyStr("mu")), List("init", "str", <<PyStr("random"), PyNone>>)>>,
      <<Range("n_components", "int", -300, -100), Range("tol", "float", 1, 10)>>,
      \* mode "fixed" held in a str object that is not the interned literal
      <<Range("n_components", "int", 100, 300),
        ParamSpec("init", "str", "fixed", FALSE, <<PyStr("random")>>)>>,
      \* a mode that is none of fixed / range / list
      <<Range("n_components", "int", 100, 300),
        ParamSpec("init", "str", "choice", TRUE, <<PyStr("random"), PyStr("nndsvd")>>)>> }

AllSetups == {"simple", "complex", "custom"}

SamplerLoadLda == Load("sklearn_lda", 0..SamplerN, AllSetups, SamplerCustoms, 0..Den, SamplerLoads)
SamplerLoadNmf == Load("sklearn_nmf", 0..SamplerN, AllSetups, SamplerCustoms, 0..Den, SamplerLoads)

SamplerNext == SamplerLoadLda \/ SamplerLoadNmf

SamplerInit == Construct({MaxIterations}, {MaxTopWords})

SpecSampler == SamplerInit /\ [][SamplerNext]_vars

(***************************************************************************)
(* The pipeline: register families, fit (more than once), rank.            *)
(***************************************************************************)
PipelineCustoms == { <<Range("n_components", "int", 100, 200)>> }
PipelineCoords == {0, Den}
PipelineShifts == {0}
MaxLoads == Cardinality(Families)

Init == Construct(0..MaxIterations, {1, MaxTopWords})

LoadLda == Load("sklearn_lda", 0..MaxSamples, {"custom"}, PipelineCustoms, PipelineCoords, MaxLoads)
LoadNmf == Load("sklearn_nmf", 0..MaxSamples, {"custom"}, PipelineCustoms, PipelineCoords, MaxLoads)
FitModelsAgain == FitModels(MaxFitCalls)
FitOk == FitReturns(PipelineShifts)

Next == LoadLda \/ LoadNmf \/ FitModelsAgain \/ FitOk \/ FitRaises \/ RankModels

Spec == Init /\ [][Next]_vars

(***************************************************************************)
(* The orchestrator on its own: registration and fit_models.               *)
(***************************************************************************)
FitModelsOnce == FitModels(OneFitCall)

FitNext == LoadLda \/ LoadNmf \/ FitModelsOnce \/ FitOk \/ FitRaises

SpecFit == Init /\ [][FitNext]_vars

(***************************************************************************)
(* Term extraction, ranking vectors and inspection on their own: the       *)
(* object holds one family whose run-groups have been fitted (fit_models   *)
(* is past its loops) and no report yet.                                   *)
(***************************************************************************)
TermsShifts == {0, 1}

\* The run-groups fit_models leaves for the configurations given: n runs each.
GroupsFor(sample, n) ==
    [1..n -> {Estimator(sample, c) : c \in FitOutcomes(sample["n_components"].i, TermsShifts)}]

FittedGroups(sampling, n) ==
    {groups \in [1..Len(sampling) -> UNION {GroupsFor(sampling[g], n) : g \in 1..Len(sampling)}] :
        \A g \in 1..Len(sampling) : groups[g] \in GroupsFor(sampling[g], n)}

TermsInit ==
    /\ Idle(1..MaxRuns, {1, MaxTopWords})
    /\ \E name \in {"sklearn_lda"}, n_samples \in 1..MaxGroups :
         \E vecs \in SobolOutputs(1, n_samples, PipelineCoords) :
            LET params == CHOOSE p \in PipelineCustoms : TRUE
                info == ModelInformations(params, n_samples, vecs)
            IN  \E groups \in FittedGroups(info.sampling, n_iterations) :
                  models = <<[name |-> name, settings |-> [info EXCEPT !.samples = groups]]>>

AnalyseFitted == AnalyseSample(0..MaxGroups)

StabilityOnce == ComputeTopicStability(OneFitCall)

TermsNext == StabilityOnce \/ AnalyseFitted

SpecTerms == TermsInit /\ [][TermsNext]_vars

(***************************************************************************)
(* The ranking builder applied to such a family.                           *)
(***************************************************************************)
SpecRanking == TermsInit /\ [][CreateRankingVectors]_vars

(***************************************************************************)
(* Properties.                                                             *)
(***************************************************************************)
KnownModes == {"fixed", "range", "list"}

\* A sampled value of a range parameter lies in [min, max] (an int for an int parameter).
ValueInRange(param, v) ==
    IF param.type = "int"
    THEN v.t = "int" /\ param.values[1].i <= 100 * v.i /\ 100 * v.i <= param.values[2].i
    ELSE v.t = "float" /\ param.values[1].i * Den <= v.i /\ v.i <= param.values[2].i * Den

SampledAsDeclared(param, v) ==
    CASE param.mode = "range" -> ValueInRange(param, v)
      [] param.mode = "list" -> \E q \in 1..Len(param.values) : v = param.values[q]
      [] param.mode = "fixed" -> v = param.values[1]
      [] OTHER -> TRUE

\* C1: sampling returns exactly n_samples configurations, and in each of them every
\* range parameter lies in [min, max], every list parameter is an element of its
\* list and every fixed parameter has its declared value.
C1_SampledAsDeclared ==
    \A j \in 1..Len(models) :
        LET st == models[j].settings
        IN  /\ Len(st.sampling) = st.n_samples
            /\ \A q \in 1..Len(st.sampling), p \in 1..Len(st.params) :
                  /\ st.params[p].name \in DOMAIN st.sampling[q]
                  /\ SampledAsDeclared(st.params[p], st.sampling[q][st.params[p].name])

HasUnknownMode(params) == \E p \in 1..Len(params) : params[p].mode \notin KnownModes

\* C8: a parameter space with a mode other than fixed / range / list makes the load
\* fail: no context holds a configuration sampled from such a space, and no
\* configuration carries None for that parameter.
C8_UnknownModeRejected ==
    \A j \in 1..Len(models) :
        LET st == models[j].settings
        IN  \A q \in 1..Len(st.sampling) :
                /\ ~HasUnknownMode(st.params)
                /\ \A p \in 1..Len(st.params) :
                      st.params[p].mode \notin KnownModes
                          => st.sampling[q][st.params[p].name] # PyNone

\* The fit invocations of the current call for configuration i (1-based) of family f.
InvocationsOf(f, i) ==
    {q \in 1..Len(fit_log) :
        fit_log[q].name = models[f].name /\ fit_log[q].sample_id = i - 1}

\* The run-group at position g of family f holds n_iterations models fitted with
\* configuration i of the family.
GroupFittedWith(f, g, i) ==
    LET st == models[f].settings
    IN  /\ g <= Len(st.samples)
        /\ Len(st.samples[g]) = n_iterations
        /\ \A r \in 1..Len(st.samples[g]) :
              /\ st.samples[g][r].params = st.sampling[i]
              /\ st.samples[g][r].n_components = st.samples[g][1].n_components

FitModelsEnded == pc = "idle" /\ result.op = "fit_models"

\* C2: when fit_models ends without a fit having raised, every configuration of every
\* family was fitted exactly n_iterations times, each time with that configuration,
\* and the call appended one run-group of those n_iterations models per
\* configuration, in the order of the configurations.
C2_EveryConfigurationFitted ==
    (FitModelsEnded /\ result.error # "FitError") =>
        \A f \in 1..Len(models) :
            LET st == models[f].settings
            IN  /\ Len(st.samples) = base[f].samples + Len(st.sampling)
                /\ \A i \in 1..Len(st.sampling) :
                      /\ Cardinality(InvocationsOf(f, i)) = n_iterations
                      /\ \A q \in InvocationsOf(f, i) : fit_log[q].sample = st.sampling[i]
                      /\ GroupFittedWith(f, base[f].samples + i, i)

C2_Witness ==
    /\ FitModelsEnded /\ result.error = ""
    /\ n_iterations = 2
    /\ Len(models) = 2
    /\ \A f \in 1..Len(models) : Len(models[f].settings.sampling) = 2
    /\ models[1].settings.sampling[1] # models[1].settings.sampling[2]
    /\ Len(fit_log) = 8

\* C3: when a fit raises for configuration c, fit_models ends with that error, no
\* run-group for c and no report at all has been added, and the run-groups of the
\* configurations processed before c are in the context, complete.
C3_FitErrorLeavesEarlierGroups ==
    (FitModelsEnded /\ result.error = "FitError") =>
        LET c == result.value
            at == DictPos(models, c.name)
        IN  /\ DictHas(models, c.name)
            /\ \A f \in 1..Len(models) :
                  LET st == models[f].settings
                      done == IF f < at THEN Len(st.sampling)
                              ELSE IF f = at THEN c.sample_id ELSE 0
                  IN  /\ Len(st.samples) = base[f].samples + done
                      /\ \A i \in 1..done : GroupFittedWith(f, base[f].samples + i, i)
                      /\ Len(st.report) = base[f].report
                      /\ Len(st.report_full) = base[f].report_full
                      /\ Len(st.topic_terms) = base[f].topic_terms

C3_Witness ==
    /\ FitModelsEnded /\ result.error = "FitError"
    /\ n_iterations = 2
    /\ result.value.it = 2
    /\ result.value.sample_id = 1
    /\ Len(models) = 2
    /\ result.value.name = models[2].name
    /\ Len(models[1].settings.samples) = 2

\* C4: in every state a family holds one report and one full report per fitted
\* configuration: no two reports of a family share a sample index, and the params
\* of every report are the configuration its run-group was fitted with.
C4_OneReportPerConfiguration ==
    \A f \in 1..Len(models) :
        LET st == models[f].settings
            Sound(reports) ==
                /\ \A a, b \in 1..Len(reports) :
                      a # b => reports[a].sample_id # reports[b].sample_id
                /\ \A a \in 1..Len(reports) :
                      /\ reports[a].sample_id + 1 <= Len(st.samples)
                      /\ \A r \in 1..Len(st.samples[reports[a].sample_id + 1]) :
                            st.samples[reports[a].sample_id + 1][r].params = reports[a].params
        IN  Sound(st.report) /\ Sound(st.report_full)

\* C5: with fewer than two runs per run-group, computing stability raises and adds
\* nothing: no report, no full report and no topic_terms entry.
C5_FewRunsAddNothing ==
    n_iterations < 2 =>
        /\ \A f \in 1..Len(models) :
              /\ models[f].settings.report = <<>>
              /\ models[f].settings.report_full = <<>>
              /\ models[f].settings.topic_terms = <<>>
        /\ (/\ FitModelsEnded
            /\ result.error # "FitError"
            /\ \E f \in 1..Len(models) : Len(models[f].settings.samples) > 0)
              => result.error # ""

\* C6: whenever at least one report exists, rank_models returns every report of
\* every family exactly once (ordered by the weighted score).
C6_RankModelsReturnsReports ==
    (result.op = "rank_models" /\ Len(AllReports(models, 1)) > 0) =>
        /\ result.error = ""
        /\ Len(result.value) = Len(AllReports(models, 1))
        /\ \A a \in 1..Len(result.value) :
              Cardinality({b \in 1..Len(result.value) : result.value[b] = result.value[a]})
                  = Cardinality({b \in 1..Len(result.value) : AllReports(models, 1)[b] = result.value[a]})

\* The terms every run of the run-group has among the top terms of the topic (0-based).
CommonTerms(group, topic) ==
    {e \in SetOf(get_top_terms(group[1], n_relevant_top_words)[topic + 1]) :
        \A r \in 1..Len(group) :
            e \in SetOf(get_top_terms(group[r], n_relevant_top_words)[topic + 1])}

\* C7: for a configuration that has its report, analyse_sample ends without error
\* and outputs, for every topic, exactly the terms that are among the top terms of
\* that topic in every run.
C7_AnalyseSampleIntersects ==
    (/\ result.op = "analyse_sample"
     /\ DictHas(models, result.args[1])
     /\ result.args[2] + 1 <= Len(models[DictPos(models, result.args[1])].settings.report)) =>
        LET st == models[DictPos(models, result.args[1])].settings
            group == st.samples[result.args[2] + 1]
        IN  /\ result.error = ""
            /\ Len(result.value) = group[1].n_components
            /\ \A topic \in 0..(group[1].n_components - 1) :
                  result.value[topic + 1] = CommonTerms(group, topic)

RankingDone == result.op = "create_ranking_vectors"

RankedSettings == models[DictPos(models, result.args[1])].settings

\* C9: every ranking vector is as long as the vocabulary; the entry of a vocabulary
\* element is its 0-based position in the topic's top-term list when it is in the
\* list, and the vocabulary size when it is not.
C9_RankVectorOverVocabulary ==
    RankingDone =>
        LET st == RankedSettings
            vocab_vec == result.value.vocab_vec
            vecs == result.value.ranking_vecs
        IN  /\ Len(vecs) = Len(st.samples)
            /\ \A g \in 1..Len(st.samples) :
                  /\ Len(vecs[g]) = Len(st.samples[g])
                  /\ \A r \in 1..Len(st.samples[g]) :
                        LET top == get_top_terms(st.samples[g][r], n_relevant_top_words)
                        IN  /\ Len(vecs[g][r]) = Len(top)
                            /\ \A t \in 1..Len(top) :
                                  /\ Len(vecs[g][r][t]) = Cardinality(SetOf(vocab_vec))
                                  /\ \A j \in 1..Len(vocab_vec) :
                                        IF \E q \in 1..Len(top[t]) : top[t][q] = vocab_vec[j]
                                        THEN /\ vecs[g][r][t][j] \in 0..(Len(top[t]) - 1)
                                             /\ top[t][vecs[g][r][t][j] + 1] = vocab_vec[j]
                                        ELSE vecs[g][r][t][j] = Cardinality(SetOf(vocab_vec))

\* Two runs of one configuration with different top terms, and a vector that holds
\* both a position and the sentinel.
C9_Witness ==
    /\ RankingDone
    /\ Len(result.value.vocab_vec) = 3
    /\ \E g \in 1..Len(RankedSettings.samples) :
          /\ Len(RankedSettings.samples[g]) >= 2
          /\ get_top_terms(RankedSettings.samples[g][1], n_relevant_top_words)
                # get_top_terms(RankedSettings.samples[g][2], n_relevant_top_words)
          /\ \E j, q \in 1..3 :
                /\ result.value.ranking_vecs[g][1][1][j] = 1
                /\ result.value.ranking_vecs[g][1][1][q] = 3

\* The features in the top-term lists of the runs of one run-group.
GroupVocabulary(group) ==
    UNION {UNION {SetOf(get_top_terms(group[r], n_relevant_top_words)[t])
                     : t \in 1..Len(group[r].components_)}
              : r \in 1..Len(group)}

\* C10: the vocabulary the ranking vectors of a configuration are built over is the
\* union of the top terms of the runs of that configuration alone.
C10_VocabularyPerConfiguration ==
    RankingDone =>
        \A g \in 1..Len(RankedSettings.samples) :
            /\ SetOf(result.value.vocab_vec) = GroupVocabulary(RankedSettings.samples[g])
            /\ \A r \in 1..Len(result.value.ranking_vecs[g]) :
                  \A t \in 1..Len(result.value.ranking_vecs[g][r]) :
                      Len(result.value.ranking_vecs[g][r][t])
                          = Cardinality(GroupVocabulary(RankedSettings.samples[g]))

====
